---- MODULE Spec2Model ----
(***************************************************************************)
(* A model of nhspy_plotthedots/plotly_spc_chart.py: the row classifiers   *)
(* get_status and get_colour, the y-axis helpers get_y_axis_range and      *)
(* get_y_axis_dictionary, the chart assembler plotly_spc_chart with its    *)
(* two entry points get_plotly_spc_chart and show_plotly_spc_chart.        *)
(*                                                                         *)
(* Python values are modelled as follows.                                  *)
(*   - an optional string (None or a str) is a record [isNone, str];       *)
(*   - an optional dict (None or a dict) is a record [isNone, items],      *)
(*     items being a function from the keys to the values;                 *)
(*   - a number is a record [type, tenths]: its Python type ("bool",       *)
(*     "int" or "float") and its numeric value in tenths, so that 10% of   *)
(*     an integer is exact (True is 1, i.e. 10 tenths);                    *)
(*   - a date is a record [year, month, day] of the proleptic Gregorian    *)
(*     calendar, as datetime has it.                                       *)
(***************************************************************************)
EXTENDS Integers, Sequences, FiniteSets, TLC

VARIABLES
    row,            \* get_status / get_colour: the row passed in
    status,         \* get_status: [called, ret]
    colour,         \* get_colour: [called, ret]
    y_axis_min,     \* get_y_axis_range / get_y_axis_dictionary: argument
    y_axis_max,     \* get_y_axis_range / get_y_axis_dictionary: argument
    format_value,   \* get_y_axis_dictionary: argument (optional string)
    y_axis_range,   \* get_y_axis_range: [called, ret]
    y_axis_setup,   \* get_y_axis_dictionary: [called, ret]
    df,             \* the table: a sequence of rows
    format_col,     \* the optional name of the format column
    outcome,        \* how the last chart call ended: a figure, None or an error
    config,         \* the caller's config object of the last show call, after it
    shown           \* the backend's fig.show calls so far, oldest first

vars == <<row, status, colour, y_axis_min, y_axis_max, format_value,
          y_axis_range, y_axis_setup, df, format_col, outcome, config, shown>>

-----------------------------------------------------------------------------
(* Bounds of the model *)

MaxRel == 3         \* relative_to_mean ranges over -MaxRel..MaxRel
MaxY == 5           \* y_axis_min, y_axis_max range over 10 * (-MaxY..MaxY)
MaxRows == 2        \* rows of a table
MaxVal == 1         \* the values column ranges over -MaxVal..MaxVal
MaxDateIdx == 2     \* the dates are 2023-01-01 + 15 * (0..MaxDateIdx) days
MaxOverrides == 2   \* keys in a caller's config
MaxCalls == 2       \* show_plotly_spc_chart calls that reach the backend

-----------------------------------------------------------------------------
(* Python values *)

PyNone == [isNone |-> TRUE, str |-> ""]
PyStr(s) == [isNone |-> FALSE, str |-> s]

\* bool(x) of an optional string: None and '' are falsy
StrTruthy(v) == ~v.isNone /\ v.str # ""

PyBool(b) == [type |-> "bool", tenths |-> IF b THEN 10 ELSE 0]
PyInt(n) == [type |-> "int", tenths |-> 10 * n]
PyFloatTenths(t) == [type |-> "float", tenths |-> t]

\* a call that has not been made, and one that returned r
NotCalled == [called |-> FALSE]
Returned(r) == [called |-> TRUE, ret |-> r]

-----------------------------------------------------------------------------
(* get_status, get_colour *)

\* mutants of the classifiers: the two flags tested in the other order, and
\* a colour that looks at relative_to_mean
get_status_close_first(r) ==
    IF r.close_to_limits THEN "Close to limit"
    ELSE IF r.outside_limits THEN "Outside Limit"
    ELSE IF r.relative_to_mean > 0 THEN "Above mean"
    ELSE IF r.relative_to_mean < 0 THEN "Below mean"
    ELSE ""

get_colour_yellow_first(r) ==
    IF r.close_to_limits THEN "yellow"
    ELSE IF r.outside_limits THEN "red"
    ELSE "rgb(22, 96, 167)"

get_colour_by_mean(r) ==
    IF r.outside_limits THEN "red"
    ELSE IF r.close_to_limits \/ r.relative_to_mean < 0 THEN "yellow"
    ELSE "rgb(22, 96, 167)"

get_status(r) ==
    IF r.outside_limits THEN "Outside Limit"
    ELSE IF r.close_to_limits THEN "Close to limit"
    ELSE IF r.relative_to_mean > 0 THEN "Above mean"
    ELSE IF r.relative_to_mean < 0 THEN "Below mean"
    ELSE ""

get_colour(r) ==
    IF r.outside_limits THEN "red"
    ELSE IF r.close_to_limits THEN "yellow"
    ELSE "rgb(22, 96, 167)"

-----------------------------------------------------------------------------
(* get_y_axis_range, get_y_axis_dictionary *)

\* y - (y * 0.1) and y + (y * 0.1), in tenths, for an integral y
MinusTenPercent(y) == 10 * y - y
PlusTenPercent(y) == 10 * y + y

\* the range the docstring describes: the padded bound, clamped at 0
get_y_axis_range_clamped(ymin, ymax) ==
    << IF ymin < 0 THEN PyFloatTenths(MinusTenPercent(ymin)) ELSE PyInt(0),
       IF ymax > 0 THEN PyFloatTenths(PlusTenPercent(ymax)) ELSE PyInt(0) >>

\* [A if C else 0, B if D else 0]: A = (y_axis_min < 0), C = the padded
\* minimum, B = (y_axis_max > 0), D = the padded maximum
get_y_axis_range(ymin, ymax) ==
    << IF MinusTenPercent(ymin) # 0 THEN PyBool(ymin < 0) ELSE PyInt(0),
       IF PlusTenPercent(ymax) # 0 THEN PyBool(ymax > 0) ELSE PyInt(0) >>

get_y_axis_dictionary(y_lab, ymin, ymax, fmt) ==
    IF StrTruthy(fmt)
    THEN [title |-> y_lab, range |-> get_y_axis_range(ymin, ymax),
          tickformat |-> fmt.str]
    ELSE [title |-> y_lab, range |-> get_y_axis_range(ymin, ymax)]

-----------------------------------------------------------------------------
(* Dates: datetime's proleptic Gregorian calendar, and relativedelta(days) *)

Date(y, m, d) == [year |-> y, month |-> m, day |-> d]

IsLeap(y) == y % 4 = 0 /\ (y % 100 # 0 \/ y % 400 = 0)

DaysInMonth(y, m) ==
    IF m = 2 THEN (IF IsLeap(y) THEN 29 ELSE 28)
    ELSE IF m \in {4, 6, 9, 11} THEN 30 ELSE 31

DaysBeforeYear(y) ==
    LET p == y - 1 IN p * 365 + p \div 4 - p \div 100 + p \div 400

RECURSIVE DaysBeforeMonth(_, _)
DaysBeforeMonth(y, m) ==
    IF m = 1 THEN 0 ELSE DaysBeforeMonth(y, m - 1) + DaysInMonth(y, m - 1)

\* date.toordinal(): 0001-01-01 is day 1
ToOrdinal(d) == DaysBeforeYear(d.year) + DaysBeforeMonth(d.year, d.month) + d.day

\* date.fromordinal(n), by the 400/100/4/1-year cycles
FromOrdinal(ord) ==
    LET n0 == ord - 1
        n400 == n0 \div 146097
        r400 == n0 % 146097
        n100 == r400 \div 36524
        r100 == r400 % 36524
        n4 == r100 \div 1461
        r4 == r100 % 1461
        n1 == r4 \div 365
        n == r4 % 365
        y == n400 * 400 + 1 + n100 * 100 + n4 * 4 + n1
    IN  IF n1 = 4 \/ n100 = 4 THEN Date(y - 1, 12, 31)
        ELSE LET leap == n1 = 3 /\ (n4 # 24 \/ n100 = 3)
                 m0 == (n + 50) \div 32
                 before(m) == DaysBeforeMonth(IF leap THEN 4 ELSE 1, m)
                 m == IF before(m0) > n THEN m0 - 1 ELSE m0
             IN  Date(y, m, n - before(m) + 1)

\* dt + relativedelta(days=k): no year, month or absolute field is set, so
\* the date is kept and timedelta(days=k) is added (k may be negative)
AddRelativeDays(d, k) == FromOrdinal(ToOrdinal(d) + k)

-----------------------------------------------------------------------------
(* Built-ins and pandas operations used by plotly_spc_chart *)

Ok(v) == [ok |-> TRUE, val |-> v]
Raise(e) == [ok |-> FALSE, error |-> e]

\* df[col]: the column as a sequence, one entry per row
Column(d, col) == [i \in 1..Len(d) |-> d[i][col]]

\* mutant of df.head(1): the last row
Head1_last(d) == IF Len(d) = 0 THEN <<>> ELSE <<d[Len(d)]>>

\* df.head(1)
Head1(d) == IF Len(d) = 0 THEN <<>> ELSE <<d[1]>>

\* Series.item(): the only element, a ValueError unless there is exactly one
Item(s) == IF Len(s) = 1 THEN Ok(s[1]) ELSE Raise("ValueError")

\* the places of the dates in time, by which min and max order them
Ordinals(s) == [i \in 1..Len(s) |-> ToOrdinal(s[i])]

\* min(s) and max(s), keys[i] giving the place of s[i] in the order: the
\* first smallest (largest) element, a ValueError on an empty sequence
PyMin(s, keys) ==
    IF Len(s) = 0 THEN Raise("ValueError")
    ELSE LET i == CHOOSE i \in 1..Len(s) :
                     /\ \A j \in 1..Len(s) : keys[i] <= keys[j]
                     /\ \A j \in 1..(i - 1) : keys[j] > keys[i]
         IN  Ok(s[i])

PyMax(s, keys) ==
    IF Len(s) = 0 THEN Raise("ValueError")
    ELSE LET i == CHOOSE i \in 1..Len(s) :
                     /\ \A j \in 1..Len(s) : keys[i] >= keys[j]
                     /\ \A j \in 1..(i - 1) : keys[j] < keys[i]
         IN  Ok(s[i])

\* 'label%{{y:{format}}}<extra></extra>'.format(format=fmt)
HoverTemplate(label, fmt) == label \o "%{y:" \o fmt \o "}<extra></extra>"

-----------------------------------------------------------------------------
(* plotly_spc_chart *)

\* the caller's bindings
values_col == "value"
date_col == "date"
plot_title == "SPC chart"
x_lab == "Date"
y_lab == "Value"

PadDays == 5

\* lines 148-151: the format value, read from the first row
FormatValue(d, fc) ==
    IF StrTruthy(fc) THEN Item(Column(Head1(d), fc.str)) ELSE Ok(PyNone)

\* lines 153-156
HoverTemplateFormat(fv) == IF StrTruthy(fv) THEN fv.str ELSE ".0f"

Scatter(d, fmt) ==
    [x |-> Column(d, date_col),
     y |-> Column(d, values_col),
     name |-> "Performance",
     mode |-> "lines+markers",
     marker |-> [color |-> [i \in 1..Len(d) |-> get_colour(d[i])], size |-> 10, symbol |-> "circle"],
     line |-> [color |-> "rgb(22, 96, 167)", width |-> 3, dash |-> "solid"],
     text |-> [i \in 1..Len(d) |-> get_status(d[i])],
     hovertemplate |-> HoverTemplate("%{text}: ", fmt)]

MeanLine(d, fmt) ==
    [x |-> Column(d, date_col),
     y |-> Column(d, "mean"),
     mode |-> "lines",
     line |-> [color |-> "rgba(174, 37, 115, 0.5)", width |-> 2, dash |-> "dash"],
     name |-> "Mean",
     hovertemplate |-> HoverTemplate("mean: ", fmt)]

LplArea(d, fmt) ==
    [x |-> Column(d, date_col),
     y |-> Column(d, "lpl"),
     mode |-> "lines",
     line |-> [color |-> "rgba(174, 37, 115, 0.1)", width |-> 0],
     name |-> "lpl",
     hovertemplate |-> HoverTemplate("lpl: ", fmt)]

UplArea(d, fmt) ==
    [x |-> Column(d, date_col),
     y |-> Column(d, "upl"),
     mode |-> "lines",
     line |-> [color |-> "rgba(174, 37, 115, 0.1)", width |-> 0],
     fill |-> "tonexty",
     fillcolor |-> "rgba(174, 37, 115, 0.1)",
     name |-> "upl",
     hovertemplate |-> HoverTemplate("upl: ", fmt)]

\* mutant of lines 217-218: the padding added on the upper side only
XAxisRange_upper_pad_only(min_xaxis, max_xaxis) ==
    <<min_xaxis, AddRelativeDays(max_xaxis, PadDays)>>

\* lines 217-218
XAxisRange(min_xaxis, max_xaxis) ==
    <<AddRelativeDays(min_xaxis, -PadDays), AddRelativeDays(max_xaxis, PadDays)>>

Layout(min_xaxis, max_xaxis, min_yaxis, max_yaxis, fv) ==
    [title |-> plot_title,
     font |-> [size |-> 12],
     xaxis |-> [title |-> x_lab, range |-> XAxisRange(min_xaxis, max_xaxis)],
     yaxis |-> get_y_axis_dictionary(y_lab, min_yaxis, max_yaxis, fv),
     showlegend |-> FALSE,
     hovermode |-> "x unified"]

\* mutant of line 230: the two limit traces in the other order
FigureData_upl_first(d, fmt) ==
    <<Scatter(d, fmt), MeanLine(d, fmt), UplArea(d, fmt), LplArea(d, fmt)>>

\* the traces of the figure, in the order of go.Figure(data=[...])
FigureData(d, fmt) ==
    <<Scatter(d, fmt), MeanLine(d, fmt), LplArea(d, fmt), UplArea(d, fmt)>>

\* lines 210-213 with the mutant that gives min and max a default
AxisExtremes_with_default(d) ==
    IF Len(d) = 0
    THEN Ok([min_xaxis |-> Date(1970, 1, 1), max_xaxis |-> Date(1970, 1, 1),
             min_yaxis |-> 0, max_yaxis |-> 0])
    ELSE Ok([min_xaxis |-> PyMin(Column(d, date_col), Ordinals(Column(d, date_col))).val,
             max_xaxis |-> PyMax(Column(d, date_col), Ordinals(Column(d, date_col))).val,
             min_yaxis |-> PyMin(Column(d, values_col), Column(d, values_col)).val,
             max_yaxis |-> PyMax(Column(d, values_col), Column(d, values_col)).val])

\* lines 210-213: the extremes of the date and the values column, or the
\* first exception
AxisExtremes(d) ==
    LET min_xaxis == PyMin(Column(d, date_col), Ordinals(Column(d, date_col)))
        max_xaxis == PyMax(Column(d, date_col), Ordinals(Column(d, date_col)))
        min_yaxis == PyMin(Column(d, values_col), Column(d, values_col))
        max_yaxis == PyMax(Column(d, values_col), Column(d, values_col))
    IN  IF ~min_xaxis.ok THEN min_xaxis
        ELSE IF ~max_xaxis.ok THEN max_xaxis
        ELSE IF ~min_yaxis.ok THEN min_yaxis
        ELSE IF ~max_yaxis.ok THEN max_yaxis
        ELSE Ok([min_xaxis |-> min_xaxis.val, max_xaxis |-> max_xaxis.val,
                 min_yaxis |-> min_yaxis.val, max_yaxis |-> max_yaxis.val])

\* the whole function: Ok(figure), or the exception that leaves it
plotly_spc_chart(d, fc) ==
    LET fv == FormatValue(d, fc) IN
    IF ~fv.ok THEN fv ELSE
    LET fmt == HoverTemplateFormat(fv.val)
        data == FigureData(d, fmt)
        ext == AxisExtremes(d)
    IN  IF ~ext.ok THEN ext
        ELSE Ok([data |-> data,
                 layout |-> Layout(ext.val.min_xaxis, ext.val.max_xaxis,
                                   ext.val.min_yaxis, ext.val.max_yaxis, fv.val)])

get_plotly_spc_chart(d, fc) == plotly_spc_chart(d, fc)

-----------------------------------------------------------------------------
(* show_plotly_spc_chart *)

NoneDict == [isNone |-> TRUE, items |-> <<>>]
Dict(items) == [isNone |-> FALSE, items |-> items]

\* bool(x) of an optional dict: None and {} are falsy
DictTruthy(c) == ~c.isNone /\ DOMAIN c.items # {}

\* lines 302-306
remove ==
    <<"zoom2d", "pan2d", "select2d", "lasso2d", "zoomIn2d",
      "zoomOut2d", "autoScale2d", "resetScale2d", "zoom",
      "pan", "select", "zoomIn", "zoomOut", "autoScale",
      "resetScale", "toggleSpikelines", "hoverClosestCartesian",
      "hoverCompareCartesian", "toImage">>

\* lines 307-316: built anew by every call
default_config ==
    [displaylogo |-> FALSE,
     displayModeBar |-> TRUE,
     modeBarButtonsToRemove |-> remove,
     locales |-> [en |-> [format |-> [currency |-> <<"£", "">>]]]]

\* mutant of a.update(b): a's items are kept where both have the key
DictUpdate_keep_own(a, b) ==
    [self |-> [k \in DOMAIN a \cup DOMAIN b |-> IF k \in DOMAIN a THEN a[k] ELSE b[k]],
     other |-> b]

\* a.update(b): a afterwards (b's items over a's) and b afterwards (as it was)
DictUpdate(a, b) ==
    [self |-> [k \in DOMAIN a \cup DOMAIN b |-> IF k \in DOMAIN b THEN b[k] ELSE a[k]],
     other |-> b]

\* fig.update_layout(template=t)
UpdateLayout(f, t) ==
    [f EXCEPT !.layout = [k \in DOMAIN f.layout \cup {"template"} |->
                             IF k = "template" THEN t ELSE f.layout[k]]]

\* the whole function, given the table, the format column, the caller's
\* config object c and the backend's calls so far: how it ends, the
\* caller's object afterwards, and the backend's calls afterwards
show_plotly_spc_chart(d, fc, c, calls) ==
    LET built == plotly_spc_chart(d, fc) IN
    IF ~built.ok
    THEN [outcome |-> [kind |-> "error", error |-> built.error],
          config |-> c,
          shown |-> calls]
    ELSE LET patched == IF DictTruthy(c)
                        THEN DictUpdate(default_config, c.items)
                        ELSE [self |-> default_config, other |-> c.items]
         IN  [outcome |-> [kind |-> "none"],
              config |-> [c EXCEPT !.items = patched.other],
              shown |-> Append(calls,
                               [figure |-> UpdateLayout(built.val, "plotly_white"),
                                config |-> patched.self,
                                passed |-> c])]

-----------------------------------------------------------------------------
(* The inputs *)

\* a row of the table; every other row differs from it in one group of columns
BaseRow ==
    [date |-> Date(2023, 1, 1), value |-> 0, mean |-> 1, lpl |-> -2, upl |-> 3,
     outside_limits |-> FALSE, close_to_limits |-> FALSE, relative_to_mean |-> 0,
     format |-> PyStr(".1f")]

\* rows for the classifiers: every flag combination, every relative_to_mean
ClassifierRows ==
    {[BaseRow EXCEPT !.outside_limits = o, !.close_to_limits = c,
                     !.relative_to_mean = r] :
        o \in BOOLEAN, c \in BOOLEAN, r \in -MaxRel..MaxRel}

YValues == {10 * k : k \in -MaxY..MaxY}

FormatValues == {PyNone, PyStr(""), PyStr(".1f"), PyStr(".2%")}

Dates == {AddRelativeDays(Date(2023, 1, 1), 15 * k) : k \in 0..MaxDateIdx}

\* rows of a table
Rows ==
    {[BaseRow EXCEPT !.outside_limits = o, !.close_to_limits = c,
                     !.relative_to_mean = r] :
        o \in BOOLEAN, c \in BOOLEAN, r \in {-1, 0, 1}}
    \cup {[BaseRow EXCEPT !.date = d] : d \in Dates}
    \cup {[BaseRow EXCEPT !.value = v] : v \in -MaxVal..MaxVal}
    \cup {[BaseRow EXCEPT !.format = f] : f \in FormatValues}
    \cup {[BaseRow EXCEPT !.mean = 2], [BaseRow EXCEPT !.lpl = -3],
          [BaseRow EXCEPT !.upl = 4]}

Tables == UNION {[1..n -> Rows] : n \in 0..MaxRows}

\* tables for show_plotly_spc_chart: the empty one and a one-row one
ShowTables == {<<>>, <<BaseRow>>}

FormatCols == {PyNone, PyStr(""), PyStr("format")}

\* what a caller may set a key of the config to
Override ==
    [displaylogo |-> TRUE,
     displayModeBar |-> FALSE,
     modeBarButtonsToRemove |-> <<"toImage">>,
     scrollZoom |-> TRUE]

Configs ==
    {NoneDict} \cup
    {Dict([k \in K |-> Override[k]]) :
        K \in {K \in SUBSET DOMAIN Override : Cardinality(K) <= MaxOverrides}}

NotCalledYet == [kind |-> "not_called"]

\* how a chart-building call that returns its figure ends
OutcomeOf(built) ==
    IF built.ok THEN [kind |-> "figure", figure |-> built.val]
    ELSE [kind |-> "error", error |-> built.error]

-----------------------------------------------------------------------------
(* The state machine: the inputs are drawn at the start, the calls follow *)

classifier_vars == <<row, status, colour>>
range_vars == <<y_axis_min, y_axis_max, format_value, y_axis_range, y_axis_setup>>
chart_vars == <<df, format_col, outcome, config, shown>>

ClassifierIdle == row = BaseRow /\ status = NotCalled /\ colour = NotCalled

RangeIdle ==
    /\ y_axis_min = 0 /\ y_axis_max = 0 /\ format_value = PyNone
    /\ y_axis_range = NotCalled /\ y_axis_setup = NotCalled

ChartIdle ==
    /\ df = <<>> /\ format_col = PyNone /\ outcome = NotCalledYet
    /\ config = NoneDict /\ shown = <<>>

InitClassify ==
    /\ row \in ClassifierRows /\ status = NotCalled /\ colour = NotCalled
    /\ RangeIdle /\ ChartIdle

InitRange ==
    /\ y_axis_min \in YValues /\ y_axis_max \in YValues
    /\ format_value \in FormatValues
    /\ y_axis_range = NotCalled /\ y_axis_setup = NotCalled
    /\ ClassifierIdle /\ ChartIdle

InitChart ==
    /\ df \in Tables /\ format_col \in FormatCols
    /\ outcome = NotCalledYet /\ config = NoneDict /\ shown = <<>>
    /\ ClassifierIdle /\ RangeIdle

InitShow ==
    /\ df \in ShowTables /\ format_col \in FormatCols
    /\ outcome = NotCalledYet /\ config = NoneDict /\ shown = <<>>
    /\ ClassifierIdle /\ RangeIdle

CallGetStatus ==
    /\ status' = Returned(get_status(row))
    /\ UNCHANGED <<row, colour, range_vars, chart_vars>>

CallGetColour ==
    /\ colour' = Returned(get_colour(row))
    /\ UNCHANGED <<row, status, range_vars, chart_vars>>

CallGetYAxisRange ==
    /\ y_axis_range' = Returned(get_y_axis_range(y_axis_min, y_axis_max))
    /\ UNCHANGED <<y_axis_min, y_axis_max, format_value, y_axis_setup,
                   classifier_vars, chart_vars>>

CallGetYAxisDictionary ==
    /\ y_axis_setup' = Returned(get_y_axis_dictionary(y_lab, y_axis_min,
                                                      y_axis_max, format_value))
    /\ UNCHANGED <<y_axis_min, y_axis_max, format_value, y_axis_range,
                   classifier_vars, chart_vars>>

CallPlotlySpcChart ==
    /\ outcome' = OutcomeOf(plotly_spc_chart(df, format_col))
    /\ UNCHANGED <<df, format_col, config, shown, classifier_vars, range_vars>>

CallGetPlotlySpcChart ==
    /\ outcome' = OutcomeOf(get_plotly_spc_chart(df, format_col))
    /\ UNCHANGED <<df, format_col, config, shown, classifier_vars, range_vars>>

CallShowPlotlySpcChart ==
    /\ Len(shown) < MaxCalls
    /\ \E c \in Configs :
          LET r == show_plotly_spc_chart(df, format_col, c, shown) IN
          /\ outcome' = r.outcome
          /\ config' = r.config
          /\ shown' = r.shown
    /\ UNCHANGED <<df, format_col, classifier_vars, range_vars>>

NextClassify == CallGetStatus \/ CallGetColour
NextRange == CallGetYAxisRange \/ CallGetYAxisDictionary
NextChart == CallPlotlySpcChart \/ CallGetPlotlySpcChart
NextShow == CallPlotlySpcChart \/ CallGetPlotlySpcChart \/ CallShowPlotlySpcChart

SpecClassify == InitClassify /\ [][NextClassify]_vars
SpecRange == InitRange /\ [][NextRange]_vars
SpecChart == InitChart /\ [][NextChart]_vars
SpecShow == InitShow /\ [][NextShow]_vars

-----------------------------------------------------------------------------
(* The row classifiers (SpecClassify) *)

StatusLabels == {"Outside Limit", "Close to limit", "Above mean", "Below mean", ""}

\* C1: get_status returns, for every row, exactly the label its priority
\* order gives: 'Outside Limit' when outside_limits; else 'Close to limit'
\* when close_to_limits; else 'Above mean' / 'Below mean' / '' by the sign
\* of relative_to_mean; and it always returns one of the five labels.
C1_StatusPriority ==
    status.called =>
        /\ status.ret \in StatusLabels
        /\ row.outside_limits => status.ret = "Outside Limit"
        /\ ~row.outside_limits /\ row.close_to_limits => status.ret = "Close to limit"
        /\ ~row.outside_limits /\ ~row.close_to_limits =>
              /\ row.relative_to_mean > 0 => status.ret = "Above mean"
              /\ row.relative_to_mean < 0 => status.ret = "Below mean"
              /\ row.relative_to_mean = 0 => status.ret = ""

\* both flags set: the outside tier wins
C1_Witness ==
    /\ status.called
    /\ row.outside_limits /\ row.close_to_limits /\ row.relative_to_mean < 0
    /\ status.ret = "Outside Limit"

\* C2: get_colour returns 'red' when outside_limits, else 'yellow' when
\* close_to_limits, else the fixed blue; every row with the same two flags
\* gets the same colour, whatever its relative_to_mean.
C2_ColourPriority ==
    colour.called =>
        /\ row.outside_limits => colour.ret = "red"
        /\ ~row.outside_limits /\ row.close_to_limits => colour.ret = "yellow"
        /\ ~row.outside_limits /\ ~row.close_to_limits =>
              colour.ret = "rgb(22, 96, 167)"
        /\ \A r \in ClassifierRows :
              /\ r.outside_limits = row.outside_limits
              /\ r.close_to_limits = row.close_to_limits
              => get_colour(r) = colour.ret

C2_Witness ==
    /\ colour.called
    /\ ~row.outside_limits /\ ~row.close_to_limits /\ row.relative_to_mean < 0
    /\ colour.ret = "rgb(22, 96, 167)"

-----------------------------------------------------------------------------
(* The y-axis range (SpecRange) *)

\* C4: get_y_axis_range returns [low, high], low being 0 when the minimum
\* is non-negative and the minimum less 10% of itself otherwise, high being
\* 0 when the maximum is non-positive and the maximum plus 10% of itself
\* otherwise (so [0, 55] for min = 10, max = 50).
C4_PaddedClampedRange ==
    y_axis_range.called =>
        /\ y_axis_range.ret[1].tenths =
              (IF y_axis_min >= 0 THEN 0 ELSE MinusTenPercent(y_axis_min))
        /\ y_axis_range.ret[2].tenths =
              (IF y_axis_max <= 0 THEN 0 ELSE PlusTenPercent(y_axis_max))

BoolOrZero(v, nonzero, truth) ==
    IF nonzero THEN v = PyBool(truth) ELSE v = PyInt(0)

-----------------------------------------------------------------------------
(* The chart (SpecChart) *)

Built == outcome.kind = "figure"
Observed == outcome.figure.data[1]

\* C3: on every row plotted in the observed series the status text and the
\* marker colour are of the same tier: 'Outside Limit' with 'red', 'Close
\* to limit' with 'yellow', the three other texts with the blue; also on
\* rows whose two flags are both set.
C3_StatusColourSameTier ==
    Built =>
        /\ DOMAIN Observed.text = 1..Len(df)
        /\ DOMAIN Observed.marker.color = 1..Len(df)
        /\ \A i \in 1..Len(df) :
              LET t == Observed.text[i]
                  c == Observed.marker.color[i]
              IN  /\ t = "Outside Limit" <=> c = "red"
                  /\ t = "Close to limit" <=> c = "yellow"
                  /\ t \in {"Above mean", "Below mean", ""} <=> c = "rgb(22, 96, 167)"
                  /\ t \in StatusLabels
                  /\ c \in {"red", "yellow", "rgb(22, 96, 167)"}

C3_Witness ==
    /\ Built
    /\ \E i \in 1..Len(df) :
          /\ df[i].outside_limits /\ df[i].close_to_limits
          /\ Observed.text[i] = "Outside Limit"
          /\ Observed.marker.color[i] = "red"
    /\ \E i \in 1..Len(df) :
          /\ ~df[i].outside_limits /\ df[i].close_to_limits
          /\ Observed.text[i] = "Close to limit"
          /\ Observed.marker.color[i] = "yellow"

ValidDate(d) ==
    /\ d.month \in 1..12
    /\ d.day \in 1..DaysInMonth(d.year, d.month)

\* d is the date k days after e
DaysAfter(d, k, e) == ValidDate(d) /\ ToOrdinal(d) = ToOrdinal(e) + k

\* C5: for a non-empty table, in whatever order its rows are, the x-axis
\* range is [d_min - 5 days, d_max + 5 days], d_min and d_max being the
\* smallest and the largest date of the date column; dates spanning
\* 2023-01-01..2023-01-31 give [2022-12-27, 2023-02-05].
C5_XAxisRange ==
    Built =>
        LET range == outcome.figure.layout.xaxis.range IN
        /\ Len(range) = 2
        /\ \E i \in 1..Len(df) :
              /\ \A j \in 1..Len(df) : ToOrdinal(df[i].date) <= ToOrdinal(df[j].date)
              /\ DaysAfter(range[1], -5, df[i].date)
        /\ \E i \in 1..Len(df) :
              /\ \A j \in 1..Len(df) : ToOrdinal(df[i].date) >= ToOrdinal(df[j].date)
              /\ DaysAfter(range[2], 5, df[i].date)
        /\ {df[i].date : i \in 1..Len(df)} = {Date(2023, 1, 1), Date(2023, 1, 31)}
              => range = <<Date(2022, 12, 27), Date(2023, 2, 5)>>

\* the later date first
C5_Witness ==
    /\ Built
    /\ Len(df) = 2
    /\ df[1].date = Date(2023, 1, 31) /\ df[2].date = Date(2023, 1, 1)
    /\ outcome.figure.layout.xaxis.range = <<Date(2022, 12, 27), Date(2023, 2, 5)>>

\* the format token the claim gives: the first row's format value when a
\* format column is named and that value is a non-empty string
HintToken ==
    IF /\ ~format_col.isNone /\ format_col.str # ""
       /\ ~df[1].format.isNone /\ df[1].format.str # ""
    THEN df[1].format.str
    ELSE ".0f"

\* C6: the hover templates of the four series all carry the same format
\* token: the first row's format value when a format column is given and
\* that value is non-empty, '.0f' otherwise; no later row's value matters.
C6_HoverFormatToken ==
    Built =>
        LET data == outcome.figure.data IN
        /\ data[1].hovertemplate = "%{text}: %{y:" \o HintToken \o "}<extra></extra>"
        /\ data[2].hovertemplate = "mean: %{y:" \o HintToken \o "}<extra></extra>"
        /\ data[3].hovertemplate = "lpl: %{y:" \o HintToken \o "}<extra></extra>"
        /\ data[4].hovertemplate = "upl: %{y:" \o HintToken \o "}<extra></extra>"

\* the first row's hint is used although the second row has another one
C6_Witness ==
    /\ Built
    /\ format_col = PyStr("format")
    /\ Len(df) = 2
    /\ df[1].format = PyStr(".2%") /\ df[2].format = PyStr(".1f")
    /\ Observed.hovertemplate = "%{text}: %{y:.2%}<extra></extra>"
    /\ outcome.figure.data[4].hovertemplate = "upl: %{y:.2%}<extra></extra>"

\* C8: the figure holds four series in this order: observed (y = the values
\* column, a colour and a status text per row), mean, lower limit, upper
\* limit; each has the date column as x and a point per row; only the
\* upper-limit series is filled ('tonexty'), back to the lower-limit series
\* right before it.
C8_FourSeriesInOrder ==
    Built =>
        LET data == outcome.figure.data IN
        /\ Len(data) = 4
        /\ \A k \in 1..4 :
              /\ DOMAIN data[k].x = 1..Len(df)
              /\ DOMAIN data[k].y = 1..Len(df)
              /\ \A i \in 1..Len(df) : data[k].x[i] = df[i].date
        /\ \A i \in 1..Len(df) :
              /\ data[1].y[i] = df[i].value
              /\ data[2].y[i] = df[i].mean
              /\ data[3].y[i] = df[i].lpl
              /\ data[4].y[i] = df[i].upl
              /\ data[1].marker.color[i] = get_colour(df[i])
              /\ data[1].text[i] = get_status(df[i])
        /\ DOMAIN data[1].marker.color = 1..Len(df)
        /\ DOMAIN data[1].text = 1..Len(df)
        /\ \A k \in 1..3 : "fill" \notin DOMAIN data[k]
        /\ "fill" \in DOMAIN data[4] /\ data[4].fill = "tonexty"
        /\ <<data[1].name, data[2].name, data[3].name, data[4].name>>
              = <<"Performance", "Mean", "lpl", "upl">>

\* two rows whose limits differ, so that the columns cannot be confused
C8_Witness ==
    /\ Built
    /\ Len(df) = 2
    /\ df[1].lpl = -3 /\ df[2].upl = 4
    /\ outcome.figure.data[3].y = <<-3, -2>>
    /\ outcome.figure.data[4].y = <<3, 4>>
    /\ outcome.figure.data[4].fill = "tonexty"

-----------------------------------------------------------------------------
(* Showing the chart (SpecShow) *)

KeysOf(c) == IF c.isNone THEN {} ELSE DOMAIN c.items

\* C7: in every show_plotly_spc_chart call the config handed to fig.show is
\* the fixed defaults with each key of that call's config set to the
\* caller's value and every other key at its default, whatever earlier
\* calls passed; and the caller's config object is as it was passed.
C7_ConfigMergedPerCall ==
    /\ \A n \in 1..Len(shown) :
          LET e == shown[n] IN
          /\ DOMAIN e.config = DOMAIN default_config \cup KeysOf(e.passed)
          /\ \A k \in KeysOf(e.passed) : e.config[k] = e.passed.items[k]
          /\ \A k \in DOMAIN default_config \ KeysOf(e.passed) :
                e.config[k] = default_config[k]
    /\ shown # <<>> => config = shown[Len(shown)].passed

\* an override of the first call is back at its default in the second
C7_Witness ==
    /\ Len(shown) = 2
    /\ shown[1].passed = Dict([displaylogo |-> TRUE, scrollZoom |-> TRUE])
    /\ shown[1].config.displaylogo = TRUE
    /\ shown[2].passed = Dict([displayModeBar |-> FALSE])
    /\ shown[2].config.displaylogo = FALSE
    /\ shown[2].config.displayModeBar = FALSE
    /\ "scrollZoom" \notin DOMAIN shown[2].config

\* C9: with an empty table every chart call ends in an error: neither
\* plotly_spc_chart nor get_plotly_spc_chart returns a figure, and
\* show_plotly_spc_chart never reaches fig.show.
C9_EmptyTableFails ==
    Len(df) = 0 =>
        /\ outcome.kind \in {"not_called", "error"}
        /\ shown = <<>>

C9_Witness ==
    /\ Len(df) = 0
    /\ format_col = PyNone
    /\ outcome = [kind |-> "error", error |-> "ValueError"]
    /\ config # NoneDict
    /\ shown = <<>>

====
